---- MODULE Spec2Model ----
(***************************************************************************)
(* Model of src/app.py: the late-pickup / over-SLA calculation.            *)
(*                                                                         *)
(* A table is a sequence of column names and a sequence of rows; a row is  *)
(* a function from column name to cell value.  A cell value is a tagged    *)
(* record (null, integer, string, Timestamp, or a date-time text), so that *)
(* the columns the code fills with "a number or a sentinel string" can be  *)
(* compared.  A Timestamp is a day number (0 = 2024-01-01) and the         *)
(* milliseconds elapsed in that day.                                       *)
(***************************************************************************)
EXTENDS Integers, Sequences, FiniteSets, TLC

VARIABLES pc, df, today_clock, processed_df, messages, raised, excel, rerun_df

vars == <<pc, df, today_clock, processed_df, messages, raised, excel, rerun_df>>

---------------------------------------------------------------------------
(* Bounds of the model *)

\* last day number (0 = 2024-01-01) a generated input timestamp may fall on
MaxDay == 2
\* largest 'max SLA' value (days) a generated row carries
MaxSLA == 2

---------------------------------------------------------------------------
(* Cell values *)

\* resolution of the %S field of the date formats
MsPerSecond == 1000
MsPerMinute == 60 * MsPerSecond
MsPerHour == 60 * MsPerMinute
MsPerDay == 24 * MsPerHour

NoText == [f1 |-> 0, f2 |-> 0, f3 |-> 0, sep |-> "", hh |-> 0, mi |-> 0, ss |-> 0, hasSec |-> FALSE]

\* NaN / None / NaT: everything pd.isnull is true of
Null == [tag |-> "null", day |-> 0, n |-> 0, s |-> "", txt |-> NoText]
IntV(k) == [tag |-> "int", day |-> 0, n |-> k, s |-> "", txt |-> NoText]
StrV(str) == [tag |-> "str", day |-> 0, n |-> 0, s |-> str, txt |-> NoText]
\* pandas Timestamp: day number and milliseconds into the day
TsV(d, ms) == [tag |-> "ts", day |-> d, n |-> ms, s |-> "", txt |-> NoText]
\* a string holding three date fields, a separator and a time of day
TextV(t) == [tag |-> "text", day |-> 0, n |-> 0, s |-> "", txt |-> t]

isnull(v) == v.tag = "null"
notnull(v) == ~isnull(v)

---------------------------------------------------------------------------
(* Calendar of the year 2024, the year every generated date lies in *)

DaysInMonth == <<31, 29, 31, 30, 31, 30, 31, 31, 30, 31, 30, 31>>

RECURSIVE DaysBeforeMonth(_)
DaysBeforeMonth(m) == IF m <= 1 THEN 0 ELSE DaysBeforeMonth(m - 1) + DaysInMonth[m - 1]

\* day number of the date d-m-2024
DayNumber(d, m) == DaysBeforeMonth(m) + d - 1

MonthOf(dayno) == CHOOSE m \in 1..12 :
                     DaysBeforeMonth(m) <= dayno /\ dayno < DaysBeforeMonth(m) + DaysInMonth[m]
DayOfMonth(dayno) == dayno - DaysBeforeMonth(MonthOf(dayno)) + 1

\* the calendar fields and time of day of Timestamp ts, written out in format
\* fmt (fields in order dmY or Ymd, separator, with or without seconds);
\* what does not fit the format (seconds, milliseconds) is not written
TextOf(ts, fmt) ==
    LET d == DayOfMonth(ts.day)
        m == MonthOf(ts.day)
    IN  TextV([f1 |-> IF fmt.order = "dmY" THEN d ELSE 2024,
               f2 |-> m,
               f3 |-> IF fmt.order = "dmY" THEN 2024 ELSE d,
               sep |-> fmt.sep,
               hh |-> ts.n \div MsPerHour,
               mi |-> (ts.n % MsPerHour) \div MsPerMinute,
               ss |-> IF fmt.sec THEN (ts.n % MsPerMinute) \div MsPerSecond ELSE 0,
               hasSec |-> fmt.sec])

---------------------------------------------------------------------------
(* validate_columns *)

required_columns ==
    <<"No", "Order ID", "Shipment ID", "Tracking ID", "Courier", "Courier Service",
      "Shipment Type", "Tracking Status", "Created at", "Dispatch at", "Pickup Date",
      "min SLA", "max SLA", "Delivered at">>

Range(seq) == {seq[i] : i \in DOMAIN seq}

SelectSeqIn(seq, S) == SelectSeq(seq, LAMBDA c : c \in S)
SelectSeqNotIn(seq, S) == SelectSeq(seq, LAMBDA c : c \notin S)

\* mutant: reports only the first missing column
validate_columns_first_only(columns) ==
    LET missing_columns == SelectSeqNotIn(required_columns, Range(columns))
    IN  IF missing_columns # <<>>
        THEN [is_valid |-> FALSE, missing_columns |-> <<Head(missing_columns)>>]
        ELSE [is_valid |-> TRUE, missing_columns |-> <<>>]

validate_columns(columns) ==
    LET missing_columns == SelectSeqNotIn(required_columns, Range(columns))
    IN  IF missing_columns # <<>>
        THEN [is_valid |-> FALSE, missing_columns |-> missing_columns]
        ELSE [is_valid |-> TRUE, missing_columns |-> <<>>]

---------------------------------------------------------------------------
(* parse_dates *)

formats ==
    <<[order |-> "dmY", sep |-> "/", sec |-> TRUE],
      [order |-> "dmY", sep |-> "-", sec |-> TRUE],
      [order |-> "dmY", sep |-> "/", sec |-> FALSE],
      [order |-> "dmY", sep |-> "-", sec |-> FALSE],
      [order |-> "Ymd", sep |-> "-", sec |-> TRUE],
      [order |-> "Ymd", sep |-> "-", sec |-> FALSE]>>

\* the day, month and year fields of text t read in the field order of fmt
DayField(t, fmt) == IF fmt.order = "dmY" THEN t.f1 ELSE t.f3
YearField(t, fmt) == IF fmt.order = "dmY" THEN t.f3 ELSE t.f1

\* strptime with an exact format: %d takes one or two digits, %Y four, the
\* separators and the presence of the seconds field must agree
MatchesFormat(t, fmt) ==
    /\ t.sep = fmt.sep
    /\ t.hasSec = fmt.sec
    /\ YearField(t, fmt) = 2024
    /\ t.f2 \in 1..12
    /\ DayField(t, fmt) \in 1..DaysInMonth[t.f2]
    /\ t.hh \in 0..23 /\ t.mi \in 0..59 /\ t.ss \in 0..59

to_datetime(t, fmt) ==
    TsV(DayNumber(DayField(t, fmt), t.f2),
        t.hh * MsPerHour + t.mi * MsPerMinute + t.ss * MsPerSecond)

RECURSIVE TryFormats(_, _)
TryFormats(t, i) ==
    IF i > Len(formats) THEN Null
    ELSE IF MatchesFormat(t, formats[i]) THEN to_datetime(t, formats[i])
    ELSE TryFormats(t, i + 1)

\* a Timestamp is returned as it is, a text is tried against the formats in
\* order, anything else (NaN, a number, any other string) ends as NaT
parse_dates(v) ==
    IF v.tag = "ts" THEN v
    ELSE IF v.tag = "text" THEN TryFormats(v.txt, 1)
    ELSE Null

\* mutant: the display format without the seconds field
strftime_no_seconds(v) ==
    IF isnull(v) THEN Null ELSE TextOf(v, [order |-> "dmY", sep |-> "-", sec |-> FALSE])

\* .dt.strftime('%d-%m-%Y %H:%M:%S'); NaT becomes NaN
strftime(v) ==
    IF isnull(v) THEN Null ELSE TextOf(v, [order |-> "dmY", sep |-> "-", sec |-> TRUE])

\* pd.to_datetime(column, errors='coerce') on a column of Timestamps and NaT
to_datetime_coerce(v) == IF v.tag = "ts" THEN v ELSE Null

---------------------------------------------------------------------------
(* determine_late_pickup *)

DispatchKosong == StrV("Dispatch at Kosong")
DeliveredKosong == StrV("Delivered at Kosong")
LatePickup == StrV("Late Pickup")
NonLatePickup == StrV("Non-Late Pickup")

\* a - b as milliseconds (a pandas Timedelta)
Timedelta(a, b) == (a.day - b.day) * MsPerDay + (a.n - b.n)
\* Timedelta.days: whole days, rounded towards minus infinity
DaysOf(delta) == delta \div MsPerDay

\* pd.to_datetime("15:00:00").time()
cutoff_time == 15 * MsPerHour

\* mutant: Days Late counted in calendar days instead of elapsed days
determine_late_pickup_calendar(row) ==
    IF isnull(row["Dispatch at"]) THEN <<DispatchKosong, DispatchKosong>>
    ELSE IF isnull(row["Pickup Date"]) THEN <<NonLatePickup, IntV(0)>>
    ELSE
        LET request_time == row["Pickup Date"].n
            actual_pickup_datetime == row["Dispatch at"]
            request_datetime == row["Pickup Date"]
            time_difference == Timedelta(actual_pickup_datetime, request_datetime)
        IN  IF time_difference > MsPerDay
              THEN <<LatePickup, IntV(actual_pickup_datetime.day - request_datetime.day)>>
            ELSE IF request_time >= cutoff_time /\ actual_pickup_datetime.day > request_datetime.day
              THEN <<NonLatePickup, IntV(0)>>
            ELSE IF request_time < cutoff_time /\ actual_pickup_datetime.day = request_datetime.day
              THEN <<NonLatePickup, IntV(0)>>
            ELSE IF request_time < cutoff_time /\ actual_pickup_datetime.day > request_datetime.day
              THEN <<LatePickup, IntV(1)>>
            ELSE <<NonLatePickup, IntV(0)>>

\* mutant: the cutoff compared with > instead of >=
determine_late_pickup_cutoff(row) ==
    IF isnull(row["Dispatch at"]) THEN <<DispatchKosong, DispatchKosong>>
    ELSE IF isnull(row["Pickup Date"]) THEN <<NonLatePickup, IntV(0)>>
    ELSE
        LET request_time == row["Pickup Date"].n
            actual_pickup_datetime == row["Dispatch at"]
            request_datetime == row["Pickup Date"]
            time_difference == Timedelta(actual_pickup_datetime, request_datetime)
        IN  IF time_difference > MsPerDay
              THEN <<LatePickup, IntV(DaysOf(time_difference))>>
            ELSE IF request_time > cutoff_time /\ actual_pickup_datetime.day > request_datetime.day
              THEN <<NonLatePickup, IntV(0)>>
            ELSE IF request_time <= cutoff_time /\ actual_pickup_datetime.day = request_datetime.day
              THEN <<NonLatePickup, IntV(0)>>
            ELSE IF request_time <= cutoff_time /\ actual_pickup_datetime.day > request_datetime.day
              THEN <<LatePickup, IntV(1)>>
            ELSE <<NonLatePickup, IntV(0)>>

\* mutant: the two null checks in the other order
determine_late_pickup_pickup_first(row) ==
    IF isnull(row["Pickup Date"]) THEN <<NonLatePickup, IntV(0)>>
    ELSE IF isnull(row["Dispatch at"]) THEN <<DispatchKosong, DispatchKosong>>
    ELSE
        LET request_time == row["Pickup Date"].n
            actual_pickup_datetime == row["Dispatch at"]
            request_datetime == row["Pickup Date"]
            time_difference == Timedelta(actual_pickup_datetime, request_datetime)
        IN  IF time_difference > MsPerDay
              THEN <<LatePickup, IntV(DaysOf(time_difference))>>
            ELSE IF request_time >= cutoff_time /\ actual_pickup_datetime.day > request_datetime.day
              THEN <<NonLatePickup, IntV(0)>>
            ELSE IF request_time < cutoff_time /\ actual_pickup_datetime.day = request_datetime.day
              THEN <<NonLatePickup, IntV(0)>>
            ELSE IF request_time < cutoff_time /\ actual_pickup_datetime.day > request_datetime.day
              THEN <<LatePickup, IntV(1)>>
            ELSE <<NonLatePickup, IntV(0)>>

determine_late_pickup(row) ==
    IF isnull(row["Dispatch at"]) THEN <<DispatchKosong, DispatchKosong>>
    ELSE IF isnull(row["Pickup Date"]) THEN <<NonLatePickup, IntV(0)>>
    ELSE
        LET request_time == row["Pickup Date"].n
            actual_pickup_datetime == row["Dispatch at"]
            request_datetime == row["Pickup Date"]
            time_difference == Timedelta(actual_pickup_datetime, request_datetime)
        IN  IF time_difference > MsPerDay
              THEN <<LatePickup, IntV(DaysOf(time_difference))>>
            ELSE IF request_time >= cutoff_time /\ actual_pickup_datetime.day > request_datetime.day
              THEN <<NonLatePickup, IntV(0)>>
            ELSE IF request_time < cutoff_time /\ actual_pickup_datetime.day = request_datetime.day
              THEN <<NonLatePickup, IntV(0)>>
            ELSE IF request_time < cutoff_time /\ actual_pickup_datetime.day > request_datetime.day
              THEN <<LatePickup, IntV(1)>>
            ELSE <<NonLatePickup, IntV(0)>>

---------------------------------------------------------------------------
(* process_data *)

None == [none |-> TRUE, columns |-> <<>>, rows |-> <<>>]
Table(columns, rows) == [none |-> FALSE, columns |-> columns, rows |-> rows]

\* row[c] = v, for a new column or an existing one
SetCol(row, c, v) == (c :> v) @@ row

\* a date text without a time of day, as strftime('%d-%m-%Y') writes it
DateText(ts) ==
    [tag |-> "datetext", day |-> 0, n |-> 0, s |-> "",
     txt |-> [f1 |-> DayOfMonth(ts.day), f2 |-> MonthOf(ts.day), f3 |-> 2024, sep |-> "-",
              hh |-> 0, mi |-> 0, ss |-> 0, hasSec |-> FALSE]]

parsed_columns == <<"Created at", "Dispatch at", "Pickup Date", "Delivered at">>

\* column by column: selected_data[col] = selected_data[col].apply(parse_dates)
ParseRow(row) ==
    [c \in DOMAIN row |-> IF c \in Range(parsed_columns) THEN parse_dates(row[c]) ELSE row[c]]

AnyNull(rows) == \E i \in DOMAIN rows : \E j \in DOMAIN parsed_columns : isnull(rows[i][parsed_columns[j]])

LatePickupRow(row) ==
    LET r == determine_late_pickup(row)
    IN  SetCol(SetCol(row, "Late Pickup", r[1]), "Days Late", r[2])

\* Timestamp + pd.to_timedelta(k, unit='days')
AddDays(ts, k) == TsV(ts.day + k, ts.n)

TanggalMaxOf(row) ==
    IF notnull(row["Dispatch at"])
    THEN AddDays(row["Dispatch at"], row["max SLA"].n)
    ELSE Null

TanggalMaxRow(row) == SetCol(row, "Tanggal Max", TanggalMaxOf(row))

\* mutant: the subtraction the other way round
OverSLAOf_reversed(row) ==
    IF notnull(row["Tanggal Max"]) /\ notnull(row["Delivered at"])
    THEN IntV(DaysOf(Timedelta(row["Delivered at"], row["Tanggal Max"])))
    ELSE IF isnull(row["Delivered at"]) THEN DeliveredKosong
    ELSE DispatchKosong

OverSLAOf(row) ==
    IF notnull(row["Tanggal Max"]) /\ notnull(row["Delivered at"])
    THEN IntV(DaysOf(Timedelta(row["Tanggal Max"], row["Delivered at"])))
    ELSE IF isnull(row["Delivered at"]) THEN DeliveredKosong
    ELSE DispatchKosong

OverSLARow(row) == SetCol(row, "Over SLA", OverSLAOf(row))

\* Timestamp.normalize(): midnight of the same day
normalize(ts) == TsV(ts.day, 0)

\* Today is read from the first row of the column, which holds one value
OverSLAIPOf(row, Today) ==
    IF notnull(row["Tanggal Max"])
    THEN IntV(DaysOf(Timedelta(Today, normalize(row["Tanggal Max"]))))
    ELSE DispatchKosong

datetime_columns == <<"Created at", "Dispatch at", "Pickup Date", "Delivered at", "Tanggal Max">>

FormatCell(v) == strftime(to_datetime_coerce(v))

FormatRow(row) ==
    LET r == SetCol(row, "Today", DateText(row["Today"]))
    IN  [c \in DOMAIN r |-> IF c \in Range(datetime_columns) THEN FormatCell(r[c]) ELSE r[c]]

required_columns_order ==
    required_columns \o <<"Late Pickup", "Days Late", "Tanggal Max", "Over SLA", "Today", "Over SLA IP">>

\* the rows of the table after lines 80-129: parsed, enriched and formatted
EnrichRows(rows, today) ==
    LET parsed == [i \in DOMAIN rows |-> ParseRow(rows[i])]
        late == [i \in DOMAIN rows |-> LatePickupRow(parsed[i])]
        tmax == [i \in DOMAIN rows |-> TanggalMaxRow(late[i])]
        over == [i \in DOMAIN rows |-> OverSLARow(tmax[i])]
        withToday == [i \in DOMAIN rows |-> SetCol(over[i], "Today", TsV(today, 0))]
        ip == [i \in DOMAIN rows |->
                 SetCol(withToday[i], "Over SLA IP", OverSLAIPOf(withToday[i], withToday[1]["Today"]))]
    IN  [i \in DOMAIN rows |-> FormatRow(ip[i])]

MissingColumnsError(missing_columns) ==
    [level |-> "error", text |-> "The following columns are missing", columns |-> missing_columns]
EmptyRowsWarning ==
    [level |-> "warning", text |-> "Some rows in Dispatch at / Delivered at are empty", columns |-> <<>>]

\* the value returned, the caller's table after the call, and what was shown
process_data(d, today) ==
    LET v == validate_columns(d.columns)
    IN  IF ~v.is_valid
        THEN [ret |-> None, df |-> d, messages |-> <<MissingColumnsError(v.missing_columns)>>]
        ELSE
          LET selected_data == d
              parsed == [i \in DOMAIN selected_data.rows |-> ParseRow(selected_data.rows[i])]
              remaining_columns == SelectSeqNotIn(selected_data.columns, Range(required_columns_order))
              cols_in_order == required_columns_order \o remaining_columns
          IN  [ret |-> Table(cols_in_order, EnrichRows(selected_data.rows, today)),
               df |-> d,
               messages |-> IF AnyNull(parsed) THEN <<EmptyRowsWarning>> ELSE <<>>]

---------------------------------------------------------------------------
(* to_excel *)

DigitStr == <<"0", "1", "2", "3", "4", "5", "6", "7", "8", "9">>

\* .astype(str) of one cell
astype_str(v) ==
    IF v.tag = "str" THEN v
    ELSE IF v.tag = "int" /\ v.n \in 0..9 THEN StrV(DigitStr[v.n + 1])
    ELSE StrV("nan")

TrackingAsText(t) ==
    Table(t.columns,
          [i \in DOMAIN t.rows |-> SetCol(t.rows[i], "Tracking ID", astype_str(t.rows[i]["Tracking ID"]))])

NoDocument == [sheet |-> "", columns |-> <<>>, rows |-> <<>>]

to_excel(t) ==
    LET written == TrackingAsText(t)
    IN  [sheet |-> "Processed Data", columns |-> written.columns, rows |-> written.rows]

---------------------------------------------------------------------------
(* Input tables *)

\* the columns an uploaded file may carry, in file order: the index column a
\* CSV saved with its index has, the required columns, one column more
AllColumns == <<"Unnamed: 0">> \o required_columns \o <<"Notes">>
ExtraColumns == {"Unnamed: 0", "Notes"}

Statuses == {"Delivered", "Returned", "Waiting for Pickup", "On Process"}

SampleRow(dispatch, pickup, delivered, sla, status) ==
    [c \in Range(AllColumns) |->
        CASE c = "Dispatch at" -> dispatch
          [] c = "Pickup Date" -> pickup
          [] c = "Delivered at" -> delivered
          [] c = "Created at" -> TextOf(TsV(0, 8 * MsPerHour), formats[1])
          [] c = "max SLA" -> IntV(sla)
          [] c = "min SLA" -> IntV(0)
          [] c = "Tracking Status" -> StrV(status)
          [] c = "Tracking ID" -> IntV(7)
          [] c = "Unnamed: 0" -> IntV(0)
          [] c = "No" -> IntV(1)
          [] OTHER -> StrV("x")]

\* the one-row table with the columns of colset
TableOf(colset, row) == Table(SelectSeqIn(AllColumns, colset), <<[c \in colset |-> row[c]]>>)

Days == 0..MaxDay
SLADays == 1..MaxSLA

\* times of day around the 15:00 cutoff, one of them with a fraction of a second
TimesOfDay == {9 * MsPerHour, 14 * MsPerHour, 15 * MsPerHour - MsPerSecond, 15 * MsPerHour,
               16 * MsPerHour, 16 * MsPerHour + 500}

\* Timestamps as read_excel delivers them, and empty cells
LateCells == {Null} \cup {TsV(d, t) : d \in Days, t \in TimesOfDay}

\* texts as read_csv delivers them, an empty cell and an unparseable text
MainCells == {Null, StrV("unknown")}
               \cup {TextOf(TsV(d, t), formats[1]) : d \in Days, t \in {9 * MsPerHour, 16 * MsPerHour}}
MainPickupCells == {Null, TextOf(TsV(0, 14 * MsPerHour), formats[5])}

IdemTimes == {16 * MsPerHour, 16 * MsPerHour + 30 * MsPerSecond, 16 * MsPerHour + 500}
IdemDispatchCells ==
    {Null, StrV("unknown")}
      \cup {TsV(d, t) : d \in Days, t \in IdemTimes}
      \cup {TextOf(TsV(d, 16 * MsPerHour + 30 * MsPerSecond), formats[i]) : d \in Days, i \in DOMAIN formats}
IdemPickupCells ==
    {Null, TsV(0, 16 * MsPerHour), TsV(0, 14 * MsPerHour), TextOf(TsV(0, 16 * MsPerHour), formats[2])}
IdemDeliveredCells ==
    {Null, StrV("unknown")}
      \cup {TsV(d, 16 * MsPerHour + 500) : d \in 1..(MaxDay + 1)}
      \cup {TextOf(TsV(d, 16 * MsPerHour + 30 * MsPerSecond), formats[5]) : d \in 1..(MaxDay + 1)}

---------------------------------------------------------------------------
(* The upload handler *)

InitRun ==
    /\ pc = "uploaded"
    /\ processed_df = None
    /\ messages = <<>>
    /\ raised = "none"
    /\ excel = NoDocument
    /\ rerun_df = None

\* tables with every required column, with or without further columns
Init ==
    /\ InitRun
    /\ today_clock \in {1, MaxDay + MaxSLA + 1}
    /\ \E extra \in SUBSET ExtraColumns, dispatch \in MainCells, pickup \in MainPickupCells,
          delivered \in MainCells, sla \in SLADays, status \in Statuses :
          df = TableOf(Range(required_columns) \cup extra,
                       SampleRow(dispatch, pickup, delivered, sla, status))

\* tables with any selection of the columns
InitSchema ==
    /\ InitRun
    /\ today_clock = MaxDay + 1
    /\ \E colset \in SUBSET Range(AllColumns) :
          df = TableOf(colset, SampleRow(Null, Null, Null, 1, "Delivered"))

\* tables whose Dispatch at and Pickup Date cells are Timestamps or empty
InitLate ==
    /\ InitRun
    /\ today_clock = MaxDay + 1
    /\ \E dispatch \in LateCells, pickup \in LateCells :
          df = TableOf(Range(AllColumns), SampleRow(dispatch, pickup, Null, 1, "On Process"))

\* tables whose date cells are Timestamps, texts in each accepted format, or empty
InitIdem ==
    /\ InitRun
    /\ today_clock = MaxDay + 1
    /\ \E dispatch \in IdemDispatchCells, pickup \in IdemPickupCells,
          delivered \in IdemDeliveredCells, sla \in SLADays :
          df = TableOf(Range(AllColumns), SampleRow(dispatch, pickup, delivered, sla, "On Process"))

\* line 197: processed_df = process_data(df)
ProcessDataCall ==
    /\ pc = "uploaded"
    /\ LET r == process_data(df, today_clock)
       IN  /\ processed_df' = r.ret
           /\ df' = r.df
           /\ messages' = messages \o r.messages
    /\ pc' = "processed"
    /\ UNCHANGED <<today_clock, raised, excel, rerun_df>>

\* line 198: processed_df = processed_df.drop(columns = 'Unnamed: 0')
DropUnnamed ==
    /\ pc = "processed"
    /\ IF processed_df.none
       THEN /\ raised' = "AttributeError"
            /\ pc' = "crashed"
            /\ UNCHANGED processed_df
       ELSE IF "Unnamed: 0" \notin Range(processed_df.columns)
       THEN /\ raised' = "KeyError"
            /\ pc' = "crashed"
            /\ UNCHANGED processed_df
       ELSE /\ processed_df' =
                 Table(SelectSeqNotIn(processed_df.columns, {"Unnamed: 0"}),
                       [i \in DOMAIN processed_df.rows |->
                          [c \in DOMAIN processed_df.rows[i] \ {"Unnamed: 0"} |-> processed_df.rows[i][c]]])
            /\ pc' = "dropped"
            /\ UNCHANGED raised
    /\ UNCHANGED <<df, today_clock, messages, excel, rerun_df>>

\* lines 200-212: the table is displayed and offered as a download
Export ==
    /\ pc = "dropped"
    /\ ~processed_df.none
    /\ excel' = to_excel(processed_df)
    /\ processed_df' = TrackingAsText(processed_df)
    /\ pc' = "done"
    /\ UNCHANGED <<df, today_clock, messages, raised, rerun_df>>

derived_columns == {"Late Pickup", "Days Late", "Tanggal Max", "Over SLA", "Today", "Over SLA IP"}

\* the original columns of an enriched table
OriginalColumns(t) ==
    Table(SelectSeqNotIn(t.columns, derived_columns),
          [i \in DOMAIN t.rows |-> [c \in DOMAIN t.rows[i] \ derived_columns |-> t.rows[i][c]]])

\* process_data run again on the original columns of its own result
Rerun ==
    /\ pc = "processed"
    /\ ~processed_df.none
    /\ rerun_df' = process_data(OriginalColumns(processed_df), today_clock).ret
    /\ pc' = "rerun"
    /\ UNCHANGED <<df, today_clock, processed_df, messages, raised, excel>>

Next == ProcessDataCall \/ DropUnnamed \/ Export
NextLate == ProcessDataCall
NextIdem == ProcessDataCall \/ Rerun

Spec == Init /\ [][Next]_vars
SpecSchema == InitSchema /\ [][Next]_vars
SpecLate == InitLate /\ [][NextLate]_vars
SpecIdem == InitIdem /\ [][NextIdem]_vars

---------------------------------------------------------------------------
(* Properties *)

Returned == pc = "processed" /\ ~processed_df.none

\* the parsed value of column c of input row i
Parsed(i, c) == parse_dates(df.rows[i][c])
Out(i, c) == processed_df.rows[i][c]

BothPresent(i) == notnull(Parsed(i, "Dispatch at")) /\ notnull(Parsed(i, "Pickup Date"))
Elapsed(i) == Timedelta(Parsed(i, "Dispatch at"), Parsed(i, "Pickup Date"))
BeforeCutoff(i) == Parsed(i, "Pickup Date").n < 15 * MsPerHour
DispatchedLaterDay(i) == Parsed(i, "Dispatch at").day > Parsed(i, "Pickup Date").day
DispatchedSameDay(i) == Parsed(i, "Dispatch at").day = Parsed(i, "Pickup Date").day

\* C1: a record with both timestamps present and at most 24 hours elapsed from
\* Pickup Date to Dispatch at (zero and negative included) is (Late Pickup, 1)
\* when the pickup time of day is before 15:00 and the dispatch date is later
\* than the pickup date, and (Non-Late Pickup, 0) in each of the other cases:
\* at or after 15:00 with a later dispatch date, before 15:00 on the same date,
\* and everything else.
C1_CutoffRule ==
    Returned =>
      \A i \in DOMAIN df.rows :
        (BothPresent(i) /\ Elapsed(i) <= MsPerDay) =>
          /\ (~BeforeCutoff(i) /\ DispatchedLaterDay(i))
                => (Out(i, "Late Pickup") = NonLatePickup /\ Out(i, "Days Late") = IntV(0))
          /\ (BeforeCutoff(i) /\ DispatchedSameDay(i))
                => (Out(i, "Late Pickup") = NonLatePickup /\ Out(i, "Days Late") = IntV(0))
          /\ (BeforeCutoff(i) /\ DispatchedLaterDay(i))
                => (Out(i, "Late Pickup") = LatePickup /\ Out(i, "Days Late") = IntV(1))
          /\ (~DispatchedLaterDay(i) /\ ~(BeforeCutoff(i) /\ DispatchedSameDay(i)))
                => (Out(i, "Late Pickup") = NonLatePickup /\ Out(i, "Days Late") = IntV(0))

\* a request at 15:00 sharp dispatched the next day within 24 hours: the grace period
C1_Witness ==
    /\ Returned
    /\ BothPresent(1) /\ Elapsed(1) <= MsPerDay
    /\ Parsed(1, "Pickup Date").n = 15 * MsPerHour
    /\ DispatchedLaterDay(1)
    /\ Out(1, "Late Pickup") = NonLatePickup

\* C2: a record with both timestamps present and more than 24 hours elapsed is
\* (Late Pickup, elapsed whole days) whatever the pickup time of day; Days Late
\* is then at least 1, exactly 48 hours give 2, and exactly 24 hours are left
\* to the cutoff rule (a request at or after 15:00 is then Non-Late Pickup, 0).
C2_Over24Hours ==
    Returned =>
      \A i \in DOMAIN df.rows :
        BothPresent(i) =>
          /\ Elapsed(i) > MsPerDay =>
                /\ Out(i, "Late Pickup") = LatePickup
                /\ Out(i, "Days Late").tag = "int"
                /\ Out(i, "Days Late").n >= 1
                /\ Out(i, "Days Late").n * MsPerDay <= Elapsed(i)
                /\ Elapsed(i) < (Out(i, "Days Late").n + 1) * MsPerDay
          /\ Elapsed(i) = 2 * MsPerDay => Out(i, "Days Late") = IntV(2)
          /\ (Elapsed(i) = MsPerDay /\ ~BeforeCutoff(i))
                => (Out(i, "Late Pickup") = NonLatePickup /\ Out(i, "Days Late") = IntV(0))

\* a request after the cutoff, dispatched two calendar days later but less than
\* 48 hours later: late by one whole day
C2_Witness ==
    /\ Returned
    /\ BothPresent(1)
    /\ ~BeforeCutoff(1)
    /\ Elapsed(1) > MsPerDay /\ Elapsed(1) < 2 * MsPerDay
    /\ Parsed(1, "Dispatch at").day = Parsed(1, "Pickup Date").day + 2
    /\ Out(1, "Late Pickup") = LatePickup
    /\ Out(1, "Days Late") = IntV(1)

\* C3: a record with null Dispatch at has the missing-dispatch sentinel in
\* Late Pickup and in Days Late, whether Pickup Date is null or not; a record
\* with Dispatch at present and null Pickup Date is (Non-Late Pickup, 0).
C3_NullPriority ==
    Returned =>
      \A i \in DOMAIN df.rows :
        /\ isnull(Parsed(i, "Dispatch at"))
              => (Out(i, "Late Pickup") = DispatchKosong /\ Out(i, "Days Late") = DispatchKosong)
        /\ (notnull(Parsed(i, "Dispatch at")) /\ isnull(Parsed(i, "Pickup Date")))
              => (Out(i, "Late Pickup") = NonLatePickup /\ Out(i, "Days Late") = IntV(0))

\* both timestamps null: the dispatch check comes first
C3_Witness ==
    /\ Returned
    /\ isnull(Parsed(1, "Dispatch at")) /\ isnull(Parsed(1, "Pickup Date"))
    /\ Out(1, "Late Pickup") = DispatchKosong

\* the deadline of input row i: Dispatch at + max SLA days
Deadline(i) == AddDays(Parsed(i, "Dispatch at"), df.rows[i]["max SLA"].n)

\* C4: in Over SLA, a record with null Dispatch at (so without Tanggal Max)
\* carries the missing-dispatch sentinel, also when Delivered at is null too;
\* the missing-delivery sentinel appears only when Delivered at is null and
\* Tanggal Max exists.
C4_DispatchSentinelFirst ==
    Returned =>
      \A i \in DOMAIN df.rows :
        /\ isnull(Parsed(i, "Dispatch at")) => Out(i, "Over SLA") = DispatchKosong
        /\ Out(i, "Over SLA") = DeliveredKosong
              => (isnull(Parsed(i, "Delivered at")) /\ notnull(Parsed(i, "Dispatch at")))

TerminalStatuses == {"Delivered", "Returned", "Waiting for Pickup"}

\* C5: Over SLA IP is the number of days Today - Tanggal Max only for records
\* whose Tracking Status is not Delivered, Returned or Waiting for Pickup; a
\* record in one of these states carries a sentinel instead of a number.
C5_TerminalExcluded ==
    Returned =>
      \A i \in DOMAIN df.rows :
        df.rows[i]["Tracking Status"].s \in TerminalStatuses => Out(i, "Over SLA IP").tag # "int"

\* C6: a run on a table that has every required column raises no error and
\* ends with an output document, whatever its rows and its other columns.
C6_NoErrorEscapes ==
    Range(required_columns) \subseteq Range(df.columns) =>
      /\ raised = "none"
      /\ pc # "crashed"
      /\ pc = "done" => excel # NoDocument

\* position of column c in the required list
RequiredIndex(c) == CHOOSE k \in DOMAIN required_columns : required_columns[k] = c

\* C7: process_data fails exactly when a required column is absent; the error
\* then names every absent required column, each once and in the order of the
\* required list, nothing is parsed or computed (no table is returned, no
\* warning about empty dates is shown) and the input table is left as it was.
C7_SchemaValidation ==
    [][(pc = "uploaded" /\ pc' = "processed") =>
         LET absent == Range(required_columns) \ Range(df.columns)
         IN  /\ processed_df'.none <=> absent # {}
             /\ df' = df
             /\ absent = {} => \A k \in DOMAIN messages' : messages'[k].level # "error"
             /\ absent # {} =>
                  /\ Len(messages') = 1
                  /\ messages'[1].level = "error"
                  /\ Range(messages'[1].columns) = absent
                  /\ Len(messages'[1].columns) = Cardinality(absent)
                  /\ \A a, b \in DOMAIN messages'[1].columns :
                        a < b => RequiredIndex(messages'[1].columns[a]) < RequiredIndex(messages'[1].columns[b])
      ]_vars

\* a table without its first and its last required column
C7_Witness ==
    /\ pc = "processed"
    /\ processed_df.none
    /\ "No" \notin Range(df.columns) /\ "Delivered at" \notin Range(df.columns)
    /\ Len(messages) = 1
    /\ Len(messages[1].columns) >= 2

OverSLAIsDayCount(i) ==
    /\ Out(i, "Over SLA").tag = "int"
    /\ Out(i, "Over SLA").n * MsPerDay <= Timedelta(Deadline(i), Parsed(i, "Delivered at"))
    /\ Timedelta(Deadline(i), Parsed(i, "Delivered at")) < (Out(i, "Over SLA").n + 1) * MsPerDay

DeliveredBeforeDeadline(i) == Timedelta(Deadline(i), Parsed(i, "Delivered at")) > 0
DeliveredAfterDeadline(i) == Timedelta(Deadline(i), Parsed(i, "Delivered at")) < 0

\* C8 as stated: with Tanggal Max and Delivered at present, Over SLA is the
\* whole-day count of Tanggal Max - Delivered at, a negative value means the
\* shipment was delivered before its deadline and a positive value after it.
C8_SignAsStated ==
    Returned =>
      \A i \in DOMAIN df.rows :
        (notnull(Parsed(i, "Dispatch at")) /\ notnull(Parsed(i, "Delivered at"))) =>
          /\ OverSLAIsDayCount(i)
          /\ Out(i, "Over SLA").n < 0 => DeliveredBeforeDeadline(i)
          /\ Out(i, "Over SLA").n > 0 => DeliveredAfterDeadline(i)

\* C8 amended: with Tanggal Max and Delivered at present, Over SLA is the
\* whole-day count (rounded down) of Tanggal Max - Delivered at; it is negative
\* exactly when Delivered at is later than Tanggal Max (the deadline was
\* missed), and a positive value means Delivered at is earlier than Tanggal Max
\* (the deadline was beaten).
C8_SignOfOverSLA ==
    Returned =>
      \A i \in DOMAIN df.rows :
        (notnull(Parsed(i, "Dispatch at")) /\ notnull(Parsed(i, "Delivered at"))) =>
          /\ OverSLAIsDayCount(i)
          /\ Out(i, "Over SLA").n < 0 <=> DeliveredAfterDeadline(i)
          /\ Out(i, "Over SLA").n > 0 => DeliveredBeforeDeadline(i)

\* delivered seven hours after the deadline: one day over, shown as -1
C8_Witness ==
    /\ Returned
    /\ notnull(Parsed(1, "Dispatch at")) /\ notnull(Parsed(1, "Delivered at"))
    /\ Timedelta(Parsed(1, "Delivered at"), Deadline(1)) = 7 * MsPerHour
    /\ Out(1, "Over SLA") = IntV(-1)

\* C9: in the returned table Tanggal Max is Dispatch at + max SLA days (in the
\* display format) when Dispatch at is present and the missing-dispatch
\* sentinel text otherwise, and no derived field of the record is empty.
C9_SentinelKept ==
    Returned =>
      \A i \in DOMAIN df.rows :
        /\ notnull(Parsed(i, "Dispatch at")) => Out(i, "Tanggal Max") = strftime(Deadline(i))
        /\ isnull(Parsed(i, "Dispatch at")) => Out(i, "Tanggal Max") = DispatchKosong
        /\ \A c \in derived_columns : notnull(Out(i, c))

DerivedOf(t, i) == [c \in derived_columns \ {"Today"} |-> t.rows[i][c]]

\* C10 as stated: process_data run on the original columns of its own result
\* gives every record the same Late Pickup, Days Late, Tanggal Max, Over SLA
\* and Over SLA IP as the first run.
C10_IdempotentAsStated ==
    (pc = "rerun" /\ ~rerun_df.none) =>
      \A i \in DOMAIN df.rows : DerivedOf(rerun_df, i) = DerivedOf(processed_df, i)

WholeSeconds(v) == v.n % MsPerSecond = 0

\* C10 amended: the same, for tables whose Dispatch at, Pickup Date and
\* Delivered at values carry no fraction of a second.
C10_IdempotentOnWholeSeconds ==
    (pc = "rerun" /\ ~rerun_df.none) =>
      \A i \in DOMAIN df.rows :
        (\A c \in {"Dispatch at", "Pickup Date", "Delivered at"} : WholeSeconds(Parsed(i, c)))
          => DerivedOf(rerun_df, i) = DerivedOf(processed_df, i)

\* a record read from texts in the year-first format, late by more than 24
\* hours only because of the seconds, enriched twice
C10_Witness ==
    /\ pc = "rerun" /\ ~rerun_df.none
    /\ df.rows[1]["Dispatch at"].tag = "text"
    /\ df.rows[1]["Dispatch at"].txt.f1 = 2024
    /\ df.rows[1]["Dispatch at"].txt.hasSec
    /\ Elapsed(1) = MsPerDay + 30 * MsPerSecond
    /\ notnull(Parsed(1, "Delivered at")) /\ WholeSeconds(Parsed(1, "Delivered at"))
    /\ rerun_df.rows[1]["Late Pickup"] = LatePickup
    /\ rerun_df.rows[1]["Over SLA"].tag = "int"

====
